---- MODULE Spec2Model ----
(***************************************************************************)
(* Conway's Game of Life with a pattern editor (fpbouchard/gameoflife).    *)
(* The model follows the latest revision of the program, the one with the  *)
(* fitted editor scale and the pattern download (src/unnamed/part_000);    *)
(* src/main.go is the same code with the editor scale a constant.  The     *)
(* Game struct is the state, one call of Game.Update (with the ManageKeys  *)
(* call it makes) is one step.  Lengths are in logical pixels, times in    *)
(* milliseconds.  The screen, the editor scale and its step are scaled     *)
(* down so that the grid is a few cells wide.                              *)
(***************************************************************************)
EXTENDS Integers, FiniteSets, Sequences, TLC

\* ------------------------------------------------------------ constants
\* screenWidth, screenHeight and ScaleStep are scaled down (1280, 960 and 5
\* in the source), and so is patternEditorScale (20, four times ScaleStep:
\* ScaleLevels is 4 in the source).
screenWidth == 9
screenHeight == 8
logicalScreenFactor == 2
logicalScreenWidth == screenWidth \div logicalScreenFactor
logicalScreenHeight == screenHeight \div logicalScreenFactor
\* What initPattern lowers the editor scale by until the editor fits.
ScaleStep == 1
ScaleLevels == 3
patternEditorScale == ScaleLevels * ScaleStep

\* The step of the speed keys and the speed main() starts with.
SpeedStep == 25
InitialSpeed == 25

\* ------------------------------------------------------------ bounds
\* Largest pattern buffer the arrow keys are pressed up to.
MaxPatternWidth == 5
MaxPatternHeight == 3
\* The slow-down key is pressed up to MaxSpeedSteps * SpeedStep milliseconds.
MaxSpeedSteps == 2
\* The clock runs up to MaxClockSteps * SpeedStep milliseconds.
MaxClockSteps == 2
\* Update calls of one behaviour of the stamping scenario.
MaxStampTicks == 2
\* Update calls of one behaviour of the glider scenario.
MaxGliderTicks == 6
\* How far outside the screen the cursor goes, in pixels.
CursorMargin == 2

\* ------------------------------------------------------------ state
VARIABLES
    active, cells, editorVisible, lastUpdateTime, pattern, scale,
    patternHeight, patternWidth, showTPS, speed, terminated, welcomeScreen,
    now,        \* the clock time.Now() and time.Since() read
    mouseDown,  \* the left button was down at the previous tick
    panicked,   \* a slice index was out of range: the Go runtime ended the run
    ticks,      \* Update calls so far
    obs         \* what the last Update call read and did

vars == <<active, cells, editorVisible, lastUpdateTime, pattern, scale,
          patternHeight, patternWidth, showTPS, speed, terminated, welcomeScreen,
          now, mouseDown, panicked, ticks, obs>>

\* The Game value the receiver g points to.  The variable scale is the field
\* patternEditorScale (the name is the constant's in the source as well).
Game ==
    [active |-> active, cells |-> cells, editorVisible |-> editorVisible,
     lastUpdateTime |-> lastUpdateTime, pattern |-> pattern,
     patternEditorScale |-> scale,
     patternHeight |-> patternHeight, patternWidth |-> patternWidth,
     showTPS |-> showTPS, speed |-> speed, terminated |-> terminated,
     welcomeScreen |-> welcomeScreen]

\* ------------------------------------------------------------ Go helpers
\* Go's integer division truncates toward zero.
GoDiv(a, b) ==
    IF a >= 0 THEN a \div b ELSE -((-a) \div b)

\* make([]bool, n): n cells, all false.
MakeBools(n) ==
    [k \in 0..(n - 1) |-> FALSE]

InRange(s, k) ==
    k \in DOMAIN s

index(x, y) ==
    y * logicalScreenWidth + x

patternIndex(g, x, y) ==
    y * g.patternWidth + x

\* ------------------------------------------------------------ initCells
initCells(g) ==
    [g EXCEPT !.cells = MakeBools(logicalScreenHeight * logicalScreenWidth)]

\* ------------------------------------------------------------ initPattern
\* Mutant of clampDim: a size is raised to 0 only.
clampDimToZero(n) ==
    IF n < 0 THEN 0 ELSE n

\* newWidth < 1 and newHeight < 1 are raised to 1.
clampDim(n) ==
    IF n < 1 THEN 1 ELSE n

\* Mutant of newPatternIndex: the cell keeps its place in the old buffer.
newPatternIndexOldWidth(g, newWidth, j, i) ==
    i * g.patternWidth + j

\* The place of cell (j, i) in the new buffer.
newPatternIndex(g, newWidth, j, i) ==
    i * newWidth + j

\* The copy loop of initPattern, run from its n-th iteration (i = n / width,
\* j = n % width of the old buffer) on the buffer built so far.
RECURSIVE copyPrevious(_, _, _, _, _)
copyPrevious(g, newWidth, newHeight, newPattern, n) ==
    IF n >= g.patternHeight * g.patternWidth
    THEN newPattern
    ELSE LET i == n \div g.patternWidth
             j == n % g.patternWidth
         IN copyPrevious(g, newWidth, newHeight,
                IF i < newHeight /\ j < newWidth
                THEN [newPattern EXCEPT ![newPatternIndex(g, newWidth, j, i)] =
                                         g.pattern[patternIndex(g, j, i)]]
                ELSE newPattern,
                n + 1)

\* Mutant of editorFits: the editor needs one more pixel a cell.
editorFitsWithBorder(newWidth, newHeight, s) ==
    /\ newWidth * (s + 1) <= logicalScreenWidth
    /\ newHeight * (s + 1) <= logicalScreenHeight

\* The editor fits the screen at scale s.
editorFits(newWidth, newHeight, s) ==
    newWidth * s <= logicalScreenWidth /\ newHeight * s <= logicalScreenHeight

\* Mutant of fitScale: the scale is lowered once at most.
fitScaleOnce(newWidth, newHeight, s) ==
    IF newWidth * s <= logicalScreenWidth /\ newHeight * s <= logicalScreenHeight
    THEN s
    ELSE s - ScaleStep

\* The loop of initPattern that lowers the editor scale until the editor fits.
RECURSIVE fitScale(_, _, _)
fitScale(newWidth, newHeight, s) ==
    IF editorFits(newWidth, newHeight, s)
    THEN s
    ELSE fitScale(newWidth, newHeight, s - ScaleStep)

\* Mutant of initPattern: the editor scale is left as it was.
initPatternKeepsScale(g, newWidth0, newHeight0, keepPrevious) ==
    LET newWidth == IF newWidth0 < 1 THEN 1 ELSE newWidth0
        newHeight == IF newHeight0 < 1 THEN 1 ELSE newHeight0
        zeroed == [k \in 0..(newHeight * newWidth - 1) |-> FALSE]
        kept == [k \in 0..(newHeight * newWidth - 1) |->
                    /\ k % newWidth < g.patternWidth
                    /\ k \div newWidth < g.patternHeight
                    /\ g.pattern[(k \div newWidth) * g.patternWidth + (k % newWidth)]]
    IN [g EXCEPT !.patternWidth = newWidth,
                 !.patternHeight = newHeight,
                 !.pattern = IF keepPrevious THEN kept ELSE zeroed]

\* Mutant of initPattern: the new buffer has the length of the old one.
initPatternOldLength(g, newWidth0, newHeight0, keepPrevious) ==
    [g EXCEPT !.patternEditorScale =
                  fitScale(clampDim(newWidth0), clampDim(newHeight0),
                           patternEditorScale),
              !.patternWidth = clampDim(newWidth0),
              !.patternHeight = clampDim(newHeight0),
              !.pattern = MakeBools(g.patternHeight * g.patternWidth)]

initPattern(g, newWidth0, newHeight0, keepPrevious) ==
    LET newWidth == clampDim(newWidth0)
        newHeight == clampDim(newHeight0)
        zeroed == MakeBools(newHeight * newWidth)
        newPattern == IF keepPrevious
                      THEN copyPrevious(g, newWidth, newHeight, zeroed, 0)
                      ELSE zeroed
    IN [g EXCEPT !.patternEditorScale =
                     fitScale(newWidth, newHeight, patternEditorScale),
                 !.patternWidth = newWidth,
                 !.patternHeight = newHeight,
                 !.pattern = newPattern]

\* initGlider: the 3x3 glider
\*   0 1 0
\*   0 0 1
\*   1 1 1
initGlider(g) ==
    LET g1 == initPattern([g EXCEPT !.patternWidth = 3, !.patternHeight = 3],
                          3, 3, FALSE)
    IN [g1 EXCEPT !.pattern =
            [k \in DOMAIN g1.pattern |->
                k \in {patternIndex(g1, 1, 0), patternIndex(g1, 2, 1),
                       patternIndex(g1, 0, 2), patternIndex(g1, 1, 2),
                       patternIndex(g1, 2, 2)}]]

\* Mutant of initPatternFromUrl: the buffer is filled column by column.
initPatternFromUrlByColumns(g, patternLines0) ==
    LET patternLines ==
            IF patternLines0[Len(patternLines0)] = <<>>
            THEN SubSeq(patternLines0, 1, Len(patternLines0) - 1)
            ELSE patternLines0
        g1 == initPattern([g EXCEPT !.patternWidth = Len(patternLines[1]),
                                    !.patternHeight = Len(patternLines)],
                          Len(patternLines[1]), Len(patternLines), FALSE)
    IN [g1 EXCEPT !.pattern =
            [k \in DOMAIN g1.pattern |->
                \E i \in 1..Len(patternLines) :
                    \E j \in 1..Len(patternLines[i]) :
                        /\ patternLines[i][j] = "O"
                        /\ (j - 1) * g1.patternHeight + (i - 1) = k]]

\* initPatternFromUrl from the split of the downloaded definition.Pattern:
\* patternLines is a sequence of lines, a line a sequence of characters.
\* A last empty line is dropped; the first line gives the width.
initPatternFromUrl(g, patternLines0) ==
    LET patternLines ==
            IF patternLines0[Len(patternLines0)] = <<>>
            THEN SubSeq(patternLines0, 1, Len(patternLines0) - 1)
            ELSE patternLines0
        g1 == initPattern([g EXCEPT !.patternWidth = Len(patternLines[1]),
                                    !.patternHeight = Len(patternLines)],
                          Len(patternLines[1]), Len(patternLines), FALSE)
    IN [g1 EXCEPT !.pattern =
            [k \in DOMAIN g1.pattern |->
                \E i \in 1..Len(patternLines) :
                    \E j \in 1..Len(patternLines[i]) :
                        /\ patternLines[i][j] = "O"
                        /\ patternIndex(g1, j - 1, i - 1) = k]]

\* ------------------------------------------------------------ ManageKeys
Keys ==
    {"Q", "Space", "Backspace", "Delete", "Tab", "Equal", "Minus",
     "Up", "Down", "Left", "Right", "F"}

\* Mutant of keyQ: the quit key is ignored.
keyQIgnored(g, keys) ==
    g

keyQ(g, keys) ==
    IF "Q" \in keys THEN [g EXCEPT !.terminated = TRUE] ELSE g

\* Mutant of keySpace: leaving the welcome screen starts the simulation.
keySpaceStarts(g, keys) ==
    IF "Space" \in keys
    THEN IF g.welcomeScreen
         THEN [g EXCEPT !.welcomeScreen = FALSE, !.active = TRUE]
         ELSE [g EXCEPT !.active = ~g.active]
    ELSE g

keySpace(g, keys) ==
    IF "Space" \in keys
    THEN IF g.welcomeScreen
         THEN [g EXCEPT !.welcomeScreen = FALSE]
         ELSE [g EXCEPT !.active = ~g.active]
    ELSE g

keyBackspace(g, keys) ==
    IF "Backspace" \in keys THEN initCells(g) ELSE g

\* Mutant of keyDelete: the buffer keeps its content.
keyDeleteKeeps(g, keys) ==
    IF "Delete" \in keys
    THEN initPattern(g, g.patternWidth, g.patternHeight, TRUE)
    ELSE g

keyDelete(g, keys) ==
    IF "Delete" \in keys
    THEN initPattern(g, g.patternWidth, g.patternHeight, FALSE)
    ELSE g

keyTab(g, keys) ==
    IF "Tab" \in keys THEN [g EXCEPT !.editorVisible = ~g.editorVisible] ELSE g

\* Mutant of keySpeed: the speed-up key has no floor.
keySpeedNoFloor(g, keys) ==
    IF "Equal" \in keys
    THEN [g EXCEPT !.speed = g.speed - SpeedStep]
    ELSE IF "Minus" \in keys
         THEN [g EXCEPT !.speed = g.speed + SpeedStep]
         ELSE g

keySpeed(g, keys) ==
    IF "Equal" \in keys
    THEN [g EXCEPT !.speed = IF g.speed - SpeedStep < 0 THEN 0
                             ELSE g.speed - SpeedStep]
    ELSE IF "Minus" \in keys
         THEN [g EXCEPT !.speed = g.speed + SpeedStep]
         ELSE g

\* The size the arrow keys ask initPattern for: <<newWidth, newHeight>>,
\* or <<>> when no arrow key is pressed.
arrowRequest(g, keys) ==
    IF "Up" \in keys THEN <<g.patternWidth, g.patternHeight - 1>>
    ELSE IF "Down" \in keys THEN <<g.patternWidth, g.patternHeight + 1>>
    ELSE IF "Left" \in keys THEN <<g.patternWidth + 1, g.patternHeight>>
    ELSE IF "Right" \in keys THEN <<g.patternWidth - 1, g.patternHeight>>
    ELSE <<>>

keyArrows(g, keys) ==
    IF arrowRequest(g, keys) = <<>>
    THEN g
    ELSE initPattern(g, arrowRequest(g, keys)[1], arrowRequest(g, keys)[2], TRUE)

keyF(g, keys) ==
    IF "F" \in keys THEN [g EXCEPT !.showTPS = ~g.showTPS] ELSE g

\* keys: the keys inpututil.IsKeyJustPressed reports in this tick.
ManageKeys(g, keys) ==
    keyF(keyArrows(keySpeed(keyTab(keyDelete(keyBackspace(keySpace(
        keyQ(g, keys), keys), keys), keys), keys), keys), keys), keys)

\* ------------------------------------------------------------ the editor panel
patternEditorX(g) ==
    logicalScreenWidth - (g.patternWidth * g.patternEditorScale)

patternEditorY(g) ==
    g.patternHeight * g.patternEditorScale

\* The test of the click handler: the cursor is on the editor panel.
onEditor(g, x, y) ==
    x >= patternEditorX(g) /\ y <= patternEditorY(g)

\* Mutant of offEditor: the panel's left column is stamped from as well.
offEditorOverlap(g, x, y) ==
    ~g.editorVisible \/ x <= patternEditorX(g) \/ y > patternEditorY(g)

\* The test of the stamp handler: the cursor is off the editor panel.
offEditor(g, x, y) ==
    ~g.editorVisible \/ x < patternEditorX(g) \/ y > patternEditorY(g)

\* The buffer cell a click at cursor (x, y) is taken to be on (the scale is
\* not 0).
editorCell(g, x, y) ==
    <<GoDiv(x - patternEditorX(g), g.patternEditorScale),
      GoDiv(y, g.patternEditorScale)>>

\* What the click handler leaves when the click is on cell c, of index k.
toggledAt(g, c, k) ==
    IF InRange(g.pattern, k)
    THEN [g |-> [g EXCEPT !.pattern[k] = ~g.pattern[k]],
          ok |-> TRUE, toggled |-> TRUE, cell |-> c]
    ELSE [g |-> g, ok |-> FALSE, toggled |-> FALSE, cell |-> c]

\* The click handler.  ok is false when it panicked: a division by a scale
\* of 0, or an index out of range.
clickPattern(g, justPressed, x, y) ==
    IF g.editorVisible /\ justPressed /\ onEditor(g, x, y)
    THEN IF g.patternEditorScale = 0
         THEN [g |-> g, ok |-> FALSE, toggled |-> FALSE, cell |-> <<0, 0>>]
         ELSE toggledAt(g, editorCell(g, x, y),
                        patternIndex(g, editorCell(g, x, y)[1],
                                        editorCell(g, x, y)[2]))
    ELSE [g |-> g, ok |-> TRUE, toggled |-> FALSE, cell |-> <<0, 0>>]

\* ------------------------------------------------------------ the stamp
\* The anchor: the cursor in cells.
anchorOf(x, y) ==
    <<GoDiv(x, logicalScreenFactor), GoDiv(y, logicalScreenFactor)>>

\* The grid index buffer cell (j, i) is written to.
stampTarget(g, x, y, j, i) ==
    index(x + j - g.patternWidth, y + i - g.patternHeight)

\* Mutant of stampWrite: the buffer's value flips the cell it is written to.
stampWriteFlip(cs, k, v) ==
    [cs EXCEPT ![k] = (cs[k] # v)]

\* One write of the stamp loop.
stampWrite(cs, k, v) ==
    [cs EXCEPT ![k] = v]

\* The stamp loop from its n-th iteration (i = n / patternWidth,
\* j = n % patternWidth) on the grid written so far.  ok is false when a
\* write's index was out of range: the loop ends there.
RECURSIVE stampLoop(_, _, _, _, _)
stampLoop(g, x, y, cs, n) ==
    IF n >= g.patternHeight * g.patternWidth
    THEN [cells |-> cs, ok |-> TRUE]
    ELSE LET i == n \div g.patternWidth
             j == n % g.patternWidth
             k == stampTarget(g, x, y, j, i)
         IN IF InRange(cs, k)
            THEN stampLoop(g, x, y,
                           stampWrite(cs, k, g.pattern[patternIndex(g, j, i)]),
                           n + 1)
            ELSE [cells |-> cs, ok |-> FALSE]

\* What the stamp handler leaves: r is what the loop returned at anchor a.
stamped(g, a, r) ==
    [g |-> [g EXCEPT !.cells = r.cells], ok |-> r.ok,
     stamped |-> TRUE, anchor |-> a]

\* The stamp handler at cursor (cx, cy).
stampPattern(g, pressed, cx, cy) ==
    IF pressed /\ offEditor(g, cx, cy)
    THEN stamped(g, anchorOf(cx, cy),
                 stampLoop(g, anchorOf(cx, cy)[1], anchorOf(cx, cy)[2],
                           g.cells, 0))
    ELSE [g |-> g, ok |-> TRUE, stamped |-> FALSE, anchor |-> <<0, 0>>]

\* ------------------------------------------------------------ the generation
\* Mutant of neighborCounts: the cell counts among its neighbours.
neighborCountsSelf(x, y, j, i) ==
    /\ x >= 0 /\ x < logicalScreenWidth
    /\ y >= 0 /\ y < logicalScreenHeight

\* The test a neighbour (x, y) of cell (j, i) passes before it is read.
neighborCounts(x, y, j, i) ==
    /\ x >= 0 /\ x < logicalScreenWidth
    /\ y >= 0 /\ y < logicalScreenHeight
    /\ ~(x = j /\ y = i)

\* The number of live neighbours of cell (j, i).
neighbors(cs, j, i) ==
    Cardinality({p \in ((j - 1)..(j + 1)) \X ((i - 1)..(i + 1)) :
                    neighborCounts(p[1], p[2], j, i) /\ cs[index(p[1], p[2])]})

\* Mutant of ruleOfLife: a live cell lives on with two live neighbours only.
ruleOfLifeTwoOnly(alive, n) ==
    IF alive THEN n = 2 ELSE n = 3

\* The rules of life.
ruleOfLife(alive, n) ==
    IF alive
    THEN IF n < 2 \/ n > 3 THEN FALSE ELSE TRUE
    ELSE IF n = 3 THEN TRUE ELSE FALSE

\* Mutant of readFrom: the cells already passed are read from the copy (an
\* update in place).
readFromInPlace(cs, cellsCopy, n) ==
    [k \in DOMAIN cs |-> IF k < n THEN cellsCopy[k] ELSE cs[k]]

\* The grid the neighbours of the n-th cell of the pass are read from:
\* cs is g.cells, cellsCopy the copy written so far.
readFrom(cs, cellsCopy, n) ==
    cs

\* The pass over the grid from its n-th cell (i = n / width, j = n % width).
RECURSIVE generationLoop(_, _, _)
generationLoop(cs, cellsCopy, n) ==
    IF n >= logicalScreenHeight * logicalScreenWidth
    THEN cellsCopy
    ELSE LET i == n \div logicalScreenWidth
             j == n % logicalScreenWidth
             src == readFrom(cs, cellsCopy, n)
         IN generationLoop(cs,
                [cellsCopy EXCEPT ![index(j, i)] =
                    ruleOfLife(src[index(j, i)], neighbors(src, j, i))],
                n + 1)

\* Mutant of gate: the elapsed time alone opens it.
gateAnyMode(g, timeDelta) ==
    timeDelta >= g.speed

\* The gate of the generation: timeDelta >= g.speed*time.Millisecond.
gate(g, timeDelta) ==
    g.active /\ timeDelta >= g.speed

\* Mutant of atGate: the generation reads the Game the stamp had not
\* written yet.
atGateBeforeStamp(beforeStamp, afterStamp) ==
    beforeStamp

\* The Game the gate tests and the generation reads: the one the key, click
\* and stamp handlers of the tick have left.
atGate(beforeStamp, afterStamp) ==
    afterStamp

generation(g, timeNow) ==
    [g EXCEPT !.lastUpdateTime = timeNow,
              !.cells = generationLoop(g.cells,
                            MakeBools(logicalScreenHeight * logicalScreenWidth), 0)]

\* ------------------------------------------------------------ Update
\* Mutant of returnsEarly: Update goes on after Q.
returnsEarlyNever(k) ==
    FALSE

\* Update returns ebiten.Termination right after ManageKeys when k, the
\* Game ManageKeys left, is terminated.
returnsEarly(k) ==
    k.terminated

\* The keys pressed stay within the bounds of the model.
KeysAllowed(keys) ==
    /\ ("Minus" \in keys /\ "Equal" \notin keys)
          => speed + SpeedStep <= MaxSpeedSteps * SpeedStep
    /\ ("Down" \in keys /\ "Up" \notin keys)
          => patternHeight < MaxPatternHeight
    /\ ("Left" \in keys /\ {"Up", "Down"} \cap keys = {})
          => patternWidth < MaxPatternWidth

NoCells == <<>>

\* One call of Game.Update by ebiten's loop, which calls it until it returns
\* ebiten.Termination or panics.  keys: the keys just pressed; pressed: the
\* left button is down; (cx, cy): ebiten.CursorPosition(); dt: the time since
\* the previous call.
Update(keys, pressed, cx, cy, dt) ==
    /\ ~terminated
    /\ ~panicked
    /\ now + dt <= MaxClockSteps * SpeedStep
    /\ KeysAllowed(keys)
    /\ LET timeNow == now + dt
           timeDelta == timeNow - lastUpdateTime
           justPressed == pressed /\ ~mouseDown
       IN \E k \in {ManageKeys(Game, keys)} :
          \E c \in {clickPattern(k, ~returnsEarly(k) /\ justPressed, cx, cy)} :
          \E s \in {stampPattern(c.g, ~returnsEarly(k) /\ c.ok /\ pressed, cx, cy)} :
          \E runs \in {~returnsEarly(k) /\ c.ok /\ s.ok
                          /\ gate(atGate(c.g, s.g), timeDelta)} :
          \E f \in {IF runs THEN generation(atGate(c.g, s.g), timeNow) ELSE s.g} :
          /\ active' = f.active
          /\ cells' = f.cells
          /\ editorVisible' = f.editorVisible
          /\ lastUpdateTime' = f.lastUpdateTime
          /\ pattern' = f.pattern
          /\ scale' = f.patternEditorScale
          /\ patternHeight' = f.patternHeight
          /\ patternWidth' = f.patternWidth
          /\ showTPS' = f.showTPS
          /\ speed' = f.speed
          /\ terminated' = f.terminated
          /\ welcomeScreen' = f.welcomeScreen
          /\ now' = timeNow
          /\ mouseDown' = pressed
          /\ panicked' = ~(c.ok /\ s.ok)
          /\ obs' = [keys |-> keys, pressed |-> pressed,
                     cursor |-> <<cx, cy>>,
                     timeDelta |-> timeDelta,
                     asked |-> arrowRequest(Game, keys),
                     speedBefore |-> speed,
                     toggled |-> c.toggled, cell |-> c.cell,
                     stamped |-> s.stamped, anchor |-> s.anchor,
                     again |-> s.stamped /\ obs.stamped /\ s.anchor = obs.anchor,
                     preStamp |-> IF s.stamped THEN c.g.cells ELSE NoCells,
                     advanced |-> runs,
                     gateCells |-> IF runs THEN atGate(c.g, s.g).cells ELSE NoCells]

NoObs ==
    [keys |-> {}, pressed |-> FALSE, cursor |-> <<0, 0>>, timeDelta |-> 0,
     asked |-> <<>>, speedBefore |-> InitialSpeed,
     toggled |-> FALSE, cell |-> <<0, 0>>, stamped |-> FALSE,
     anchor |-> <<0, 0>>, again |-> FALSE, preStamp |-> NoCells, advanced |-> FALSE,
     gateCells |-> NoCells]

\* ------------------------------------------------------------ main
\* The struct literal of main().
gameLiteral ==
    [active |-> FALSE, cells |-> NoCells, editorVisible |-> TRUE,
     lastUpdateTime |-> 0, pattern |-> NoCells, patternEditorScale |-> 0,
     patternHeight |-> 3, patternWidth |-> 3, showTPS |-> FALSE,
     speed |-> InitialSpeed, terminated |-> FALSE, welcomeScreen |-> TRUE]

\* The Game main() builds before ebiten.RunGame when the program is given
\* no argument.
mainGame ==
    initGlider(initCells(gameLiteral))

\* The state with Game value g before the first Update call.
StartWith(g) ==
    /\ active = g.active
    /\ cells = g.cells
    /\ editorVisible = g.editorVisible
    /\ lastUpdateTime = g.lastUpdateTime
    /\ pattern = g.pattern
    /\ scale = g.patternEditorScale
    /\ patternHeight = g.patternHeight
    /\ patternWidth = g.patternWidth
    /\ showTPS = g.showTPS
    /\ speed = g.speed
    /\ terminated = g.terminated
    /\ welcomeScreen = g.welcomeScreen
    /\ now = 0
    /\ mouseDown = FALSE
    /\ panicked = FALSE
    /\ ticks = 0
    /\ obs = NoObs

Init ==
    StartWith(mainGame)

\* The lines of a w x h pattern text whose live cells ('O') are those of L.
PatternText(w, h, L) ==
    [i \in 1..h |-> [j \in 1..w |-> IF <<j - 1, i - 1>> \in L THEN "O" ELSE "."]]

\* The pattern texts main() is started on: rectangular, up to the largest
\* buffer, with no live cell, one, or all of them, ending with a line break
\* or not.
PatternTexts ==
    UNION {UNION {{PatternText(w, h, L), Append(PatternText(w, h, L), <<>>)} :
                     L \in {M \in SUBSET ((0..(w - 1)) \X (0..(h - 1))) :
                               Cardinality(M) <= 1 \/ Cardinality(M) = w * h}} :
              w \in 1..MaxPatternWidth, h \in 1..MaxPatternHeight}

\* The Game main() builds when the program is given the name of a pattern.
loadedGames ==
    {initPatternFromUrl(initCells(gameLiteral), t) : t \in PatternTexts}

\* ------------------------------------------------------------ scenarios
\* Each specification is ebiten's loop calling Update under one kind of
\* input.  Subsets(S, n): the subsets of S of at most n elements.
Subsets(S, n) ==
    {ks \in SUBSET S : Cardinality(ks) <= n}

Dts ==
    {0, SpeedStep}

\* The keyboard without the arrow keys, no mouse: up to two keys a tick.
ModeKeys ==
    {"Q", "Space", "Backspace", "Tab", "Equal", "Minus", "F"}

Next ==
    \E keys \in Subsets(ModeKeys, 2), dt \in Dts :
        Update(keys, FALSE, 0, 0, dt) /\ UNCHANGED ticks

Spec ==
    Init /\ [][Next]_vars

\* The editor's keys on the glider or a downloaded pattern: up to two keys
\* a tick.
EditKeys ==
    {"Up", "Down", "Left", "Right", "Delete"}

InitResize ==
    \E g \in loadedGames \cup {mainGame} : StartWith(g)

NextResize ==
    \E keys \in Subsets(EditKeys, 2) :
        Update(keys, FALSE, 0, 0, 0) /\ UNCHANGED ticks

SpecResize ==
    InitResize /\ [][NextResize]_vars

\* The left button pressed and held with the cursor at rest, on a grid all
\* dead or all alive, the editor shown or hidden.
CursorXs ==
    (-CursorMargin)..(screenWidth + CursorMargin)

CursorYs ==
    (-CursorMargin)..(screenHeight + CursorMargin)

FilledCells(v) ==
    [k \in 0..(logicalScreenHeight * logicalScreenWidth - 1) |-> v]

InitStamp ==
    \E g \in loadedGames, ed \in BOOLEAN, v \in BOOLEAN :
        StartWith([g EXCEPT !.cells = FilledCells(v), !.editorVisible = ed,
                            !.welcomeScreen = FALSE])

NextStamp ==
    /\ ticks < MaxStampTicks
    /\ ticks' = ticks + 1
    /\ \E cx \in CursorXs, cy \in CursorYs :
          /\ ticks = 0 \/ <<cx, cy>> = obs.cursor
          /\ Update({}, TRUE, cx, cy, 0)

SpecStamp ==
    InitStamp /\ [][NextStamp]_vars

\* The simulation running with no input, on any grid whose live cells are
\* within a block of three rows and three columns.
BlockGrids ==
    UNION {{[k \in 0..(logicalScreenHeight * logicalScreenWidth - 1) |->
                <<k % logicalScreenWidth, k \div logicalScreenWidth>> \in L] :
               L \in SUBSET ((x0..(x0 + 2)) \X (y0..(y0 + 2)))} :
           x0 \in 0..(logicalScreenWidth - 3), y0 \in 0..(logicalScreenHeight - 3)}

InitAdvance ==
    \E cs \in BlockGrids :
        StartWith([mainGame EXCEPT !.cells = cs, !.active = TRUE,
                                   !.welcomeScreen = FALSE])

NextAdvance ==
    \E dt \in Dts :
        Update({}, FALSE, 0, 0, dt) /\ UNCHANGED ticks

SpecAdvance ==
    InitAdvance /\ [][NextAdvance]_vars

\* A few ticks with the editor's and the grid's keys and the clock, on a
\* running simulation, the button up throughout or held down with the
\* cursor at rest on a cell of the window.
TickKeys ==
    {"Backspace", "Delete", "Left"}

WindowXs ==
    0..screenWidth

WindowYs ==
    0..screenHeight

\* The loaded buffers at most half as wide and as high as the grid, and the
\* glider.
halfGridGames ==
    {g \in loadedGames :
        /\ g.patternWidth * 2 <= logicalScreenWidth
        /\ g.patternHeight * 2 <= logicalScreenHeight} \cup {mainGame}

\* The cursors of the window at the top-left pixel of a grid cell.
CellXs ==
    {x \in WindowXs : x % logicalScreenFactor = 0}

CellYs ==
    {y \in WindowYs : y % logicalScreenFactor = 0}

InitTick ==
    \E g \in halfGridGames, ed \in BOOLEAN, v \in BOOLEAN :
        StartWith([g EXCEPT !.cells = FilledCells(v), !.editorVisible = ed,
                            !.welcomeScreen = FALSE, !.active = TRUE])

NextTick ==
    /\ ticks < MaxStampTicks
    /\ ticks' = ticks + 1
    /\ \E keys \in Subsets(TickKeys, 1), dt \in Dts :
          \/ /\ ticks = 0 \/ ~obs.pressed
             /\ Update(keys, FALSE, 0, 0, dt)
          \/ \E cx \in CellXs, cy \in CellYs :
                /\ ticks = 0 \/ (obs.pressed /\ <<cx, cy>> = obs.cursor)
                /\ Update(keys, TRUE, cx, cy, dt)

SpecTick ==
    InitTick /\ [][NextTick]_vars

\* Clicks on the program as main() starts it, on the glider or a loaded
\* pattern: the button goes down with the cursor anywhere in or around the
\* window and is then held with the cursor at rest, or released; Tab shows
\* and hides the editor.
ClickKeys ==
    {"Tab"}

NextClick ==
    /\ ticks < MaxStampTicks
    /\ ticks' = ticks + 1
    /\ \E keys \in SUBSET ClickKeys :
          \/ Update(keys, FALSE, obs.cursor[1], obs.cursor[2], 0)
          \/ \E cx \in CursorXs, cy \in CursorYs :
                /\ ~obs.pressed \/ <<cx, cy>> = obs.cursor
                /\ Update(keys, TRUE, cx, cy, 0)

SpecClick ==
    InitResize /\ [][NextClick]_vars

\* The glider of main() on its way: Space and Equal leave the welcome screen
\* and set speed to 0, a press of the button stamps the glider, Space with
\* the button released starts the simulation, which is then left alone with
\* the cursor at rest: a generation at every Update call from then on.
NextGlider ==
    /\ ticks < MaxGliderTicks
    /\ ticks' = ticks + 1
    /\ \/ /\ ticks = 0
          /\ Update({"Space", "Equal"}, FALSE, 0, 0, 0)
       \/ /\ ticks = 1
          /\ \E cx \in WindowXs, cy \in WindowYs : Update({}, TRUE, cx, cy, 0)
       \/ /\ ticks = 2
          /\ Update({"Space"}, FALSE, obs.cursor[1], obs.cursor[2], 0)
       \/ /\ ticks > 2
          /\ Update({}, FALSE, obs.cursor[1], obs.cursor[2], 0)

SpecGlider ==
    Init /\ [][NextGlider]_vars

\* One call initPattern(newWidth, newHeight, keepPrevious) on the glider or
\* a loaded pattern, its shrink loop taken one iteration a step.  At the
\* start the sizes are clamped, the new buffer is built and
\* g.patternEditorScale is reset to the constant; obs.asked holds the call's
\* <<newWidth, newHeight, keepPrevious>> while the loop runs.
InitShrink ==
    \E g \in loadedGames \cup {mainGame},
       newWidth0 \in 0..MaxPatternWidth, newHeight0 \in 0..MaxPatternHeight,
       keepPrevious \in BOOLEAN :
        /\ active = g.active
        /\ cells = g.cells
        /\ editorVisible = g.editorVisible
        /\ lastUpdateTime = g.lastUpdateTime
        /\ pattern = g.pattern
        /\ scale = patternEditorScale
        /\ patternHeight = g.patternHeight
        /\ patternWidth = g.patternWidth
        /\ showTPS = g.showTPS
        /\ speed = g.speed
        /\ terminated = g.terminated
        /\ welcomeScreen = g.welcomeScreen
        /\ now = 0
        /\ mouseDown = FALSE
        /\ panicked = FALSE
        /\ ticks = 0
        /\ obs = [NoObs EXCEPT !.asked = <<clampDim(newWidth0),
                                           clampDim(newHeight0), keepPrevious>>]

\* The body of the loop when the editor does not fit: the scale is lowered.
shrinkStep ==
    /\ obs.asked # <<>>
    /\ ~editorFits(obs.asked[1], obs.asked[2], scale)
    /\ scale' = scale - ScaleStep
    /\ ticks' = ticks + 1
    /\ UNCHANGED <<active, cells, editorVisible, lastUpdateTime, pattern,
                   patternHeight, patternWidth, showTPS, speed, terminated,
                   welcomeScreen, now, mouseDown, panicked, obs>>

\* The break of the loop, and the end of initPattern: the new buffer and
\* its size are stored.
shrinkBreak ==
    /\ obs.asked # <<>>
    /\ editorFits(obs.asked[1], obs.asked[2], scale)
    /\ pattern' = initPattern(Game, obs.asked[1], obs.asked[2], obs.asked[3]).pattern
    /\ patternWidth' = obs.asked[1]
    /\ patternHeight' = obs.asked[2]
    /\ obs' = NoObs
    /\ UNCHANGED <<active, cells, editorVisible, lastUpdateTime, scale,
                   showTPS, speed, terminated, welcomeScreen, now, mouseDown,
                   panicked, ticks>>

NextShrink ==
    shrinkStep \/ shrinkBreak

SpecShrink ==
    InitShrink /\ [][NextShrink]_vars /\ WF_vars(NextShrink)

\* The quit key on a running simulation, alone or with Backspace, at any
\* tick, the clock advancing or not, the button up or pressed and held with
\* the cursor at rest on a cell of the window.
QuitKeys ==
    {"Q", "Backspace"}

NextQuit ==
    /\ ticks < MaxStampTicks
    /\ ticks' = ticks + 1
    /\ \E keys \in SUBSET QuitKeys, dt \in Dts :
          \/ /\ ticks = 0 \/ ~obs.pressed
             /\ Update(keys, FALSE, 0, 0, dt)
          \/ \E cx \in CellXs, cy \in CellYs :
                /\ ticks = 0 \/ (obs.pressed /\ <<cx, cy>> = obs.cursor)
                /\ Update(keys, TRUE, cx, cy, dt)

SpecQuit ==
    InitTick /\ [][NextQuit]_vars

\* ============================================================ the claims
\* The grid read by coordinates, and the rule of Life stated on them.
InGrid(x, y) ==
    x \in 0..(logicalScreenWidth - 1) /\ y \in 0..(logicalScreenHeight - 1)

CellAt(cs, x, y) ==
    cs[y * logicalScreenWidth + x]

LiveAround(cs, x, y) ==
    Cardinality({d \in {-1, 0, 1} \X {-1, 0, 1} :
                    /\ d # <<0, 0>>
                    /\ InGrid(x + d[1], y + d[2])
                    /\ CellAt(cs, x + d[1], y + d[2])})

LifeStep(cs) ==
    [k \in 0..(logicalScreenHeight * logicalScreenWidth - 1) |->
        LET x == k % logicalScreenWidth
            y == k \div logicalScreenWidth
        IN IF cs[k]
           THEN LiveAround(cs, x, y) \in {2, 3}
           ELSE LiveAround(cs, x, y) = 3]

\* C1: a generation replaces the grid by the Life step of the grid it was run
\* on: every cell's next state comes from its old state and the number of live
\* cells among its neighbours inside the grid, all read from the old grid, with
\* no wraparound; a lone corner cell is dead after it.
C1_GenerationIsLifeStep ==
    obs.advanced =>
        /\ cells = LifeStep(obs.gateCells)
        /\ (\A k \in DOMAIN cells : obs.gateCells[k] <=> k = 0) => ~cells[0]

\* A generation has run on a grid where a cell was born next to the left edge
\* and a live one died.
C1_Witness ==
    /\ obs.advanced
    /\ \E y \in 0..(logicalScreenHeight - 1) :
          ~CellAt(obs.gateCells, 0, y) /\ CellAt(cells, 0, y)
    /\ \E k \in DOMAIN cells : obs.gateCells[k] /\ ~cells[k]

\* The target of buffer cell (j, i) in the last stamp, and its rectangle
\* [x-w, x-1] x [y-h, y-1] for the anchor (x, y).
TargetX(j) ==
    obs.anchor[1] + j - patternWidth

TargetY(i) ==
    obs.anchor[2] + i - patternHeight

InTarget(x, y) ==
    /\ x \in (obs.anchor[1] - patternWidth)..(obs.anchor[1] - 1)
    /\ y \in (obs.anchor[2] - patternHeight)..(obs.anchor[2] - 1)

\* C2: a stamp never fails, wherever the anchor is: the writes outside the
\* grid are dropped.
C2_StampNeverFails ==
    obs.stamped => ~panicked

\* C3: a stamp that went through changes no grid cell outside its target
\* rectangle.
C3_StampStaysInTarget ==
    (obs.stamped /\ ~panicked /\ ~obs.advanced) =>
        \A x \in 0..(logicalScreenWidth - 1), y \in 0..(logicalScreenHeight - 1) :
            ~InTarget(x, y) => CellAt(cells, x, y) = CellAt(obs.preStamp, x, y)

\* C4: after a stamp that went through, every buffer cell whose target is in
\* the grid is the value of the grid cell at its target.
C4_StampOverwrites ==
    (obs.stamped /\ ~panicked /\ ~obs.advanced) =>
        \A j \in 0..(patternWidth - 1), i \in 0..(patternHeight - 1) :
            InGrid(TargetX(j), TargetY(i)) =>
                CellAt(cells, TargetX(j), TargetY(i)) = pattern[i * patternWidth + j]

\* C5: a stamp of the same buffer at the same anchor as the stamp of the
\* previous tick, on the grid that stamp left, changes nothing.
C5_RestampChangesNothing ==
    [][(/\ obs.stamped /\ ~obs.advanced
        /\ obs'.stamped /\ ~obs'.advanced
        /\ obs'.anchor = obs.anchor
        /\ pattern' = pattern
        /\ patternWidth' = patternWidth /\ patternHeight' = patternHeight
        /\ obs'.preStamp = cells)
       => cells' = cells]_vars

\* The same buffer was stamped again at the same anchor, onto a grid the
\* first stamp had changed, and the stamp wrote live and dead cells.
C5_Witness ==
    /\ obs.again /\ ~panicked /\ obs.preStamp = cells
    /\ \E k \in DOMAIN cells : cells[k]
    /\ \E k \in DOMAIN cells : ~cells[k]
    /\ \E k \in DOMAIN pattern : pattern[k]

\* Buffer p of width w read by coordinates.
PatternAt(p, w, x, y) ==
    p[y * w + x]

\* Buffer r is buffer g resized with its content kept: the cells of the
\* overlap are those of g at the same coordinates, the others are dead.
KeptIn(g, r) ==
    /\ DOMAIN r.pattern = 0..(r.patternWidth * r.patternHeight - 1)
    /\ \A x \in 0..(r.patternWidth - 1), y \in 0..(r.patternHeight - 1) :
          PatternAt(r.pattern, r.patternWidth, x, y) =
              IF x < g.patternWidth /\ y < g.patternHeight
              THEN PatternAt(g.pattern, g.patternWidth, x, y)
              ELSE FALSE

AllDead(r) ==
    /\ DOMAIN r.pattern = 0..(r.patternWidth * r.patternHeight - 1)
    /\ \A k \in DOMAIN r.pattern : ~r.pattern[k]

\* The sizes initPattern is asked for.
AskedWidths ==
    0..(MaxPatternWidth + 1)

AskedHeights ==
    0..(MaxPatternHeight + 1)

\* C6: initPattern with keepPrevious keeps every cell of the overlap of the
\* old and the new buffer at its (x, y) coordinates and leaves every other
\* cell dead; without keepPrevious every cell is dead.  Stated of every
\* size asked of every reachable buffer, and of every arrow-key and Delete
\* step.
C6_ResizeKeepsCoordinates ==
    /\ [](\A nw \in AskedWidths, nh \in AskedHeights :
            /\ initPattern(Game, nw, nh, TRUE).patternWidth = (IF nw < 1 THEN 1 ELSE nw)
            /\ initPattern(Game, nw, nh, TRUE).patternHeight = (IF nh < 1 THEN 1 ELSE nh)
            /\ KeptIn(Game, initPattern(Game, nw, nh, TRUE))
            /\ AllDead(initPattern(Game, nw, nh, FALSE)))
    /\ [][/\ (obs'.asked # <<>> /\ "Delete" \notin obs'.keys) => KeptIn(Game, Game')
          /\ "Delete" \in obs'.keys => AllDead(Game')]_vars

\* A buffer was widened by an arrow key and has a live cell below its first
\* row, whose flat index is not the one it had.
C6_Witness ==
    /\ obs.keys = {"Left"}
    /\ obs.asked = <<patternWidth, patternHeight>>
    /\ \E x \in 0..(patternWidth - 2), y \in 1..(patternHeight - 1) :
          PatternAt(pattern, patternWidth, x, y)

\* C7: patternWidth >= 1 and patternHeight >= 1 in every state reached by
\* arrow keys, Delete and pattern loads, and a size below 1 asked of
\* initPattern gives 1 (initPattern(0, 0, _) gives a 1 x 1 buffer).
C7_PatternSizeAtLeastOne ==
    /\ patternWidth >= 1
    /\ patternHeight >= 1
    /\ DOMAIN pattern = 0..(patternWidth * patternHeight - 1)
    /\ \A keep \in BOOLEAN :
          /\ initPattern(Game, 0, 0, keep).patternWidth = 1
          /\ initPattern(Game, 0, 0, keep).patternHeight = 1
          /\ DOMAIN initPattern(Game, 0, 0, keep).pattern = {0}
          /\ initPattern(Game, -1, patternHeight, keep).patternWidth = 1
          /\ initPattern(Game, patternWidth, -1, keep).patternHeight = 1

\* An arrow key asked for a height of 0 and the buffer has height 1.
C7_Witness ==
    /\ obs.asked # <<>>
    /\ obs.asked[2] = 0
    /\ patternHeight = 1

\* C8: the generation runs in a tick only if, after the keys of the tick,
\* the simulation is active, not on the welcome screen, and the time since
\* lastUpdateTime is at least speed; it records the time of the tick as
\* lastUpdateTime; a tick without it leaves lastUpdateTime alone and the
\* grid as it was or cleared.
C8_AdvanceIsGated ==
    [][/\ obs'.advanced =>
             /\ active' /\ ~welcomeScreen'
             /\ now' - lastUpdateTime >= speed'
             /\ lastUpdateTime' = now'
       /\ ~(active' /\ ~welcomeScreen' /\ now' - lastUpdateTime >= speed') =>
             /\ ~obs'.advanced
             /\ lastUpdateTime' = lastUpdateTime
             /\ cells' \in {cells, FilledCells(FALSE)}]_vars

\* A generation ran, later than the start, and an earlier one had run.
C8_Witness ==
    /\ obs.advanced
    /\ lastUpdateTime = now
    /\ obs.timeDelta < now

\* C9: the program starts on the welcome screen, not active; Space on the
\* welcome screen leaves it without starting the simulation; Space
\* elsewhere flips active; nothing else changes the two flags; the welcome
\* screen is never shown again; the two flags are never both set.
C9_ModeMachine ==
    /\ <<welcomeScreen, active>> = <<TRUE, FALSE>>
    /\ [](~(welcomeScreen /\ active))
    /\ [][/\ ("Space" \in obs'.keys /\ welcomeScreen) =>
                 (~welcomeScreen' /\ ~active')
          /\ ("Space" \in obs'.keys /\ ~welcomeScreen) =>
                 (~welcomeScreen' /\ active' = ~active)
          /\ "Space" \notin obs'.keys =>
                 (welcomeScreen' = welcomeScreen /\ active' = active)]_vars

\* Space started the simulation: the welcome screen was left before.
C9_Witness ==
    /\ "Space" \in obs.keys
    /\ ~welcomeScreen
    /\ active

\* C10 as stated: the step that sets terminated, and any later one, leaves
\* the welcome and active flags, the grid, the buffer and speed unchanged,
\* and terminated is never reset.
C10_NothingAfterQuit ==
    [][/\ terminated => terminated'
       /\ terminated' =>
             /\ welcomeScreen' = welcomeScreen /\ active' = active
             /\ cells' = cells /\ pattern' = pattern
             /\ patternWidth' = patternWidth /\ patternHeight' = patternHeight
             /\ speed' = speed]_vars

\* C10 amended: Q ends the run from every state, and only Q does; no Update
\* is called after the one that set terminated, so terminated is never
\* reset and nothing changes afterwards; in the Update call that sets it,
\* the other keys pressed are still handled as ManageKeys handles them.
C10_QuitIsTerminal ==
    /\ []((~terminated /\ ~panicked) => ManageKeys(Game, {"Q"}).terminated)
    /\ [][/\ ~terminated
          /\ terminated' <=> "Q" \in obs'.keys
          /\ terminated' =>
                /\ welcomeScreen' = ManageKeys(Game, obs'.keys).welcomeScreen
                /\ active' = ManageKeys(Game, obs'.keys).active
                /\ cells' = ManageKeys(Game, obs'.keys).cells
                /\ pattern' = ManageKeys(Game, obs'.keys).pattern
                /\ speed' = ManageKeys(Game, obs'.keys).speed]_vars

\* Q and Space were pressed in the same tick on the welcome screen: the run
\* ended and the welcome screen was left.
C10_Witness ==
    /\ terminated
    /\ obs.keys = {"Q", "Space"}
    /\ ~welcomeScreen
    /\ ~active

\* The stamp stated on coordinates, for a target rectangle inside the grid:
\* buffer p of size w x h written with its bottom-right cell at a - (1, 1).
TargetInGrid(w, h, a) ==
    /\ a[1] - w >= 0 /\ a[1] <= logicalScreenWidth
    /\ a[2] - h >= 0 /\ a[2] <= logicalScreenHeight

StampOn(cs, p, w, h, a) ==
    [k \in DOMAIN cs |->
        LET x == k % logicalScreenWidth
            y == k \div logicalScreenWidth
        IN IF x \in (a[1] - w)..(a[1] - 1) /\ y \in (a[2] - h)..(a[2] - 1)
           THEN PatternAt(p, w, x - (a[1] - w), y - (a[2] - h))
           ELSE cs[k]]

\* The grid the edits of the step leave: cleared by Backspace, then written
\* by the stamp of the buffer the keys and the click have left.
EditedCells ==
    LET base == IF "Backspace" \in obs'.keys THEN FilledCells(FALSE) ELSE cells
    IN IF obs'.stamped
       THEN StampOn(base, pattern', patternWidth', patternHeight', obs'.anchor)
       ELSE base

\* C11: in a tick every edit (grid clear, pattern clear and resize, click,
\* stamp) is applied before the gate: a tick that advances leaves the Life
\* step of the edited grid, a tick that does not leaves the edited grid.
\* Stated of the ticks whose stamp, if any, has its target in the grid.
C11_EditsBeforeAdvance ==
    [][(~panicked' /\ (obs'.stamped =>
                          TargetInGrid(patternWidth', patternHeight', obs'.anchor))) =>
          cells' = IF obs'.advanced THEN LifeStep(EditedCells) ELSE EditedCells]_vars

\* A tick stamped a buffer the keys had widened and advanced, and the
\* generation it left differs from the stamped grid and from the Life step
\* of the grid before the stamp.
C11_Witness ==
    /\ obs.stamped /\ obs.advanced /\ ~panicked
    /\ "Left" \in obs.keys
    /\ TargetInGrid(patternWidth, patternHeight, obs.anchor)
    /\ cells # LifeStep(obs.preStamp)
    /\ cells # obs.gateCells
    /\ \E k \in DOMAIN cells : cells[k]

\* C12: speed is never negative: the speed-up key lowers it by SpeedStep,
\* to 0 at least, and leaves 0 at 0; the slow-down key, pressed without the
\* speed-up key, raises it by SpeedStep whatever it is; nothing else changes
\* it; it starts at InitialSpeed.
C12_SpeedNeverNegative ==
    /\ <<speed>> = <<InitialSpeed>>
    /\ [](speed >= 0)
    /\ [][/\ "Equal" \in obs'.keys =>
                speed' = (IF speed - SpeedStep < 0 THEN 0 ELSE speed - SpeedStep)
          /\ ("Equal" \in obs'.keys /\ speed = 0) => speed' = 0
          /\ ("Minus" \in obs'.keys /\ "Equal" \notin obs'.keys) =>
                speed' = speed + SpeedStep
          /\ {"Equal", "Minus"} \cap obs'.keys = {} => speed' = speed]_vars

\* The speed-up key was pressed at speed 0.
C12_Witness ==
    /\ "Equal" \in obs.keys
    /\ obs.speedBefore = 0
    /\ speed = 0

\* The scales the shrink loop goes through, from patternEditorScale down to
\* 0 by ScaleStep, and those at which a w x h editor fits the screen.
ScaleSequence ==
    {patternEditorScale - n * ScaleStep : n \in 0..ScaleLevels}

Fits(w, h, s) ==
    w * s <= logicalScreenWidth /\ h * s <= logicalScreenHeight

LargestFit(w, h) ==
    CHOOSE s \in ScaleSequence :
        /\ Fits(w, h, s)
        /\ \A t \in ScaleSequence : Fits(w, h, t) => t <= s

\* C13: for every buffer size w, h >= 1 the scale initPattern computes is
\* the largest of patternEditorScale, patternEditorScale - ScaleStep, ...
\* at which the editor fits the screen, and is patternEditorScale when that
\* fits.
C13_ScaleIsLargestFit ==
    \A w \in 1..(MaxPatternWidth + 1), h \in 1..(MaxPatternHeight + 1),
       keep \in BOOLEAN :
        /\ initPattern(Game, w, h, keep).patternEditorScale = LargestFit(w, h)
        /\ Fits(w, h, patternEditorScale) =>
              initPattern(Game, w, h, keep).patternEditorScale = patternEditorScale

\* An arrow key left a buffer whose scale the loop lowered more than once
\* and not to 0.
C13_Witness ==
    /\ obs.asked # <<>>
    /\ scale = LargestFit(patternWidth, patternHeight)
    /\ scale < patternEditorScale - ScaleStep
    /\ scale > 0

\* C14: in every state reached by resizes, pattern clears and loads the
\* stored scale is the one computed for the size of the buffer, and the
\* editor at that scale fits the screen.
C14_StoredScaleFits ==
    /\ scale = LargestFit(patternWidth, patternHeight)
    /\ patternWidth * scale <= logicalScreenWidth
    /\ patternHeight * scale <= logicalScreenHeight

\* An arrow key made the buffer too wide for the scale it had, and the
\* stored scale was lowered.
C14_Witness ==
    /\ obs.asked # <<>>
    /\ obs.asked[1] = patternWidth
    /\ \E s \in ScaleSequence :
          /\ Fits(patternWidth - 1, patternHeight, s)
          /\ ~Fits(patternWidth, patternHeight, s)
          /\ scale < s

\* The grid whose live cells are those of the glider
\*   . O .
\*   . . O
\*   O O O
\* with its top-left corner at (x0, y0), and the grid whose live cells are
\* the 2 x 2 block with its top-left corner at (x0, y0).
GliderAt(x0, y0) ==
    [k \in 0..(logicalScreenHeight * logicalScreenWidth - 1) |->
        <<(k % logicalScreenWidth) - x0, (k \div logicalScreenWidth) - y0>> \in
            {<<1, 0>>, <<2, 1>>, <<0, 2>>, <<1, 2>>, <<2, 2>>}]

BlockAt(x0, y0) ==
    [k \in 0..(logicalScreenHeight * logicalScreenWidth - 1) |->
        <<(k % logicalScreenWidth) - x0, (k \div logicalScreenWidth) - y0>> \in
            {<<0, 0>>, <<1, 0>>, <<0, 1>>, <<1, 1>>}]

\* The anchor of the stamp of the glider scenario, and whether the glider
\* stamped there and the glider one cell right and down are in the grid.
GliderAnchor ==
    <<obs.cursor[1] \div logicalScreenFactor, obs.cursor[2] \div logicalScreenFactor>>

GliderHasRoom ==
    /\ GliderAnchor[1] - 3 >= 0 /\ GliderAnchor[1] + 1 <= logicalScreenWidth
    /\ GliderAnchor[2] - 3 >= 0 /\ GliderAnchor[2] + 1 <= logicalScreenHeight

\* C15: the glider of main() stamped on the empty grid with room around it
\* is, after the stamp, the glider with its bottom-right cell left and above
\* the anchor and, four generations later, the same shape one cell to the
\* right and one cell down, every other cell dead.
C15_GliderMovesDiagonally ==
    (GliderHasRoom /\ ~panicked) =>
        /\ ticks = 2 => cells = GliderAt(GliderAnchor[1] - 3, GliderAnchor[2] - 3)
        /\ ticks \in 3..5 =>
              /\ obs.advanced
              /\ \A x0 \in (-3)..logicalScreenWidth, y0 \in (-3)..logicalScreenHeight :
                    cells # GliderAt(x0, y0)
        /\ ticks = 6 =>
              /\ obs.advanced
              /\ cells = GliderAt(GliderAnchor[1] - 2, GliderAnchor[2] - 2)

\* The fourth generation after the stamp of the glider in the top-left
\* corner has run.
C15_Witness ==
    /\ ticks = 6 /\ ~panicked /\ GliderHasRoom
    /\ obs.advanced
    /\ cells = GliderAt(1, 1)

\* C16: a generation leaves a grid whose only live cells are a 2 x 2 block
\* as it is, wherever the block is.
C16_BlockIsStill ==
    [][(/\ obs'.advanced
        /\ \E x0 \in 0..(logicalScreenWidth - 2), y0 \in 0..(logicalScreenHeight - 2) :
              cells = BlockAt(x0, y0))
       => cells' = cells]_vars

\* A generation ran on the block in the bottom-right corner.
C16_Witness ==
    /\ obs.advanced
    /\ obs.gateCells = BlockAt(logicalScreenWidth - 2, logicalScreenHeight - 2)
    /\ cells = obs.gateCells

\* C17: the Delete key leaves a buffer of the same size with every cell
\* dead, and the grid as it was; the Backspace key leaves a grid of the same
\* size with every cell dead, and the buffer as it was.  Stated of the key
\* handlers on every reachable state and of the ticks with one of the keys,
\* the button up and no generation.
C17_ClearsKeepTheRest ==
    /\ [](/\ AllDead(ManageKeys(Game, {"Delete"}))
          /\ ManageKeys(Game, {"Delete"}).patternWidth = patternWidth
          /\ ManageKeys(Game, {"Delete"}).patternHeight = patternHeight
          /\ ManageKeys(Game, {"Delete"}).cells = cells
          /\ ManageKeys(Game, {"Backspace"}).cells = FilledCells(FALSE)
          /\ DOMAIN ManageKeys(Game, {"Backspace"}).cells = DOMAIN cells
          /\ ManageKeys(Game, {"Backspace"}).pattern = pattern
          /\ ManageKeys(Game, {"Backspace"}).patternWidth = patternWidth
          /\ ManageKeys(Game, {"Backspace"}).patternHeight = patternHeight)
    /\ [][(~obs'.pressed /\ ~obs'.advanced) =>
             /\ obs'.keys = {"Delete"} =>
                   /\ AllDead(Game')
                   /\ patternWidth' = patternWidth /\ patternHeight' = patternHeight
                   /\ cells' = cells
             /\ obs'.keys = {"Backspace"} =>
                   /\ cells' = FilledCells(FALSE)
                   /\ pattern' = pattern
                   /\ patternWidth' = patternWidth
                   /\ patternHeight' = patternHeight]_vars

\* Delete was pressed, the button up and no generation run: the buffer is
\* dead and the grid still has its live cells.
C17_Witness ==
    /\ obs.keys = {"Delete"} /\ ~obs.pressed /\ ~obs.advanced
    /\ \A k \in DOMAIN pattern : ~pattern[k]
    /\ patternWidth * patternHeight > 1
    /\ \A k \in DOMAIN cells : cells[k]

\* C19: the grid holds logicalScreenWidth * logicalScreenHeight cells and
\* the buffer patternWidth * patternHeight cells, each one dead or alive,
\* in every state.
C19_DenseRectangles ==
    /\ cells \in [0..(logicalScreenWidth * logicalScreenHeight - 1) -> BOOLEAN]
    /\ pattern \in [0..(patternWidth * patternHeight - 1) -> BOOLEAN]

\* A click on the editor flipped a cell of a buffer the Left key had widened
\* in the tick, and the grid advanced.
C19_Witness ==
    /\ obs.toggled /\ obs.advanced
    /\ "Left" \in obs.keys
    /\ patternWidth * patternHeight > 1

\* The rows of a pattern text: its lines but a last empty one.
TextRows(t) ==
    IF t[Len(t)] = <<>> THEN SubSeq(t, 1, Len(t) - 1) ELSE t

\* Game r holds the w x h buffer of pattern text t: cell (j, i) is alive
\* exactly when the character of row i, column j is 'O'.
HoldsText(r, t) ==
    /\ r.patternHeight = Len(TextRows(t))
    /\ r.patternWidth = Len(TextRows(t)[1])
    /\ DOMAIN r.pattern = 0..(r.patternWidth * r.patternHeight - 1)
    /\ \A j \in 0..(r.patternWidth - 1), i \in 0..(r.patternHeight - 1) :
          PatternAt(r.pattern, r.patternWidth, j, i) = (TextRows(t)[i + 1][j + 1] = "O")

\* C18: a load of a rectangular pattern text of w columns and h rows leaves
\* the w x h buffer of the text: the load main() does on the Game it has
\* built, and a load on the glider or on any other loaded buffer, of which
\* nothing is left.
C18_LoadReplacesBuffer ==
    obs = NoObs =>
        \A t \in PatternTexts :
            /\ \E r \in {initPatternFromUrl(initCells(gameLiteral), t)} : HoldsText(r, t)
            /\ \E r \in {initPatternFromUrl(Game, t)} : HoldsText(r, t)

\* The program has started on a loaded pattern that is not square, with a
\* live cell below its first row and a dead cell.
C18_Witness ==
    /\ obs = NoObs
    /\ \E t \in PatternTexts : HoldsText(Game, t)
    /\ Game \in loadedGames
    /\ patternWidth # patternHeight
    /\ \E k \in DOMAIN pattern : k >= patternWidth /\ pattern[k]
    /\ \E k \in DOMAIN pattern : ~pattern[k]

\* The panel test of the click handler on the cursor of the step, and the
\* buffer cell the claim places under the cursor.
ClickOnPanel ==
    /\ editorVisible'
    /\ obs'.pressed /\ ~mouseDown
    /\ obs'.cursor[1] >= logicalScreenWidth - patternWidth * scale
    /\ obs'.cursor[2] <= patternHeight * scale

CellUnderCursor ==
    <<GoDiv(obs'.cursor[1] - (logicalScreenWidth - patternWidth * scale), scale),
      GoDiv(obs'.cursor[2], scale)>>

\* C20: a click the handler takes to be on the editor panel flips the buffer
\* cell under the cursor, a cell of the buffer, and changes no other buffer
\* cell, nor the size of the buffer, nor the grid.
C20_ClickFlipsOneCell ==
    [][ClickOnPanel =>
          /\ ~panicked'
          /\ obs'.toggled
          /\ obs'.cell = CellUnderCursor
          /\ CellUnderCursor[1] \in 0..(patternWidth - 1)
          /\ CellUnderCursor[2] \in 0..(patternHeight - 1)
          /\ patternWidth' = patternWidth /\ patternHeight' = patternHeight
          /\ DOMAIN pattern' = DOMAIN pattern
          /\ \A k \in DOMAIN pattern :
                (pattern'[k] # pattern[k]) <=>
                    k = CellUnderCursor[2] * patternWidth + CellUnderCursor[1]
          /\ cells' = cells]_vars

\* C21: whenever the click handler computes a cell, for a cursor that passes
\* its panel test, the cell is a cell of the buffer: 0 <= x < patternWidth
\* and 0 <= y < patternHeight, on the row cursorY = patternHeight * scale and
\* for cursors above or to the right of the window included.
C21_ClickedCellInBuffer ==
    [][(ClickOnPanel /\ scale # 0) =>
          /\ CellUnderCursor[1] >= 0 /\ CellUnderCursor[1] < patternWidth
          /\ CellUnderCursor[2] >= 0 /\ CellUnderCursor[2] < patternHeight]_vars

\* C22: in every state reached by resizes and pattern loads the editor
\* scale is strictly positive, however large the buffer.
C22_ScalePositive ==
    scale > 0

\* C23: the shrink loop of initPattern ends for every requested buffer
\* size, and the scale it goes through and leaves is one of
\* patternEditorScale, patternEditorScale - ScaleStep, ..., 0 (20, 15, 10,
\* 5, 0 in the program): it is never negative.  The scale the loop leaves
\* is the one initPattern stores.
C23_ShrinkLoopEnds ==
    /\ [](scale \in ScaleSequence /\ scale >= 0)
    /\ <>(obs.asked = <<>>)
    /\ [][obs'.asked = <<>> =>
             scale' = initPattern(Game, obs.asked[1], obs.asked[2],
                                  obs.asked[3]).patternEditorScale]_vars

\* The loop ended at scale 0 after lowering the scale at every iteration.
C23_Witness ==
    /\ obs.asked = <<>>
    /\ ticks = ScaleLevels
    /\ scale = 0
    /\ patternWidth * ScaleStep > logicalScreenWidth

\* The panel test of the click handler on the cursor of the step, with the
\* buffer size and scale the mouse handlers see.
CursorOnPanel ==
    /\ obs'.cursor[1] >= logicalScreenWidth - patternWidth' * scale'
    /\ obs'.cursor[2] <= patternHeight' * scale'

\* C24: with the button down, no tick both toggles a buffer cell and stamps
\* the grid.  With the editor visible a cursor that passes the panel test
\* never stamps, and toggles when the button has just gone down (unless the
\* handler panics); a cursor that fails it stamps and never toggles.  With
\* the editor hidden a press stamps and never toggles.
C24_ToggleOrStamp ==
    [][obs'.pressed =>
          /\ ~(obs'.toggled /\ obs'.stamped)
          /\ (editorVisible' /\ CursorOnPanel) =>
                /\ ~obs'.stamped
                /\ cells' = cells
                /\ (~mouseDown /\ ~panicked') => obs'.toggled
          /\ (editorVisible' /\ ~CursorOnPanel) =>
                /\ obs'.stamped
                /\ ~obs'.toggled
                /\ pattern' = pattern
          /\ ~editorVisible' =>
                /\ obs'.stamped
                /\ ~obs'.toggled
                /\ pattern' = pattern]_vars

\* A press on the left column of the panel toggled a cell and did not
\* stamp; the grid is still empty.
C24_Witness ==
    /\ obs.pressed
    /\ editorVisible
    /\ obs.cursor[1] = logicalScreenWidth - patternWidth * scale
    /\ obs.toggled
    /\ ~obs.stamped
    /\ \A k \in DOMAIN cells : ~cells[k]

\* C25: in the tick in which Q is pressed Update ends the run and applies
\* no buffer toggle, no stamp and no generation, the button down and the
\* interval elapsed or not: the buffer is unchanged, the grid is unchanged
\* but for a Backspace of the same tick, and the time of the last
\* generation is kept.
C25_QuitTickSkipsTheRest ==
    []["Q" \in obs'.keys =>
          /\ terminated'
          /\ ~obs'.toggled /\ ~obs'.stamped /\ ~obs'.advanced
          /\ pattern' = pattern
          /\ cells' = IF "Backspace" \in obs'.keys
                      THEN FilledCells(FALSE)
                      ELSE cells
          /\ lastUpdateTime' = lastUpdateTime
          /\ ~panicked']_vars

\* Q was pressed alone, the button held since the tick before with the
\* cursor off the panel, the simulation running and the interval elapsed:
\* the full grid is as it was.
C25_Witness ==
    /\ terminated
    /\ obs.keys = {"Q"}
    /\ obs.pressed /\ mouseDown
    /\ ticks = MaxStampTicks
    /\ offEditor(Game, obs.cursor[1], obs.cursor[2])
    /\ active
    /\ obs.timeDelta >= speed /\ obs.timeDelta > 0
    /\ cells = FilledCells(TRUE)

====
